---- MODULE Spec2Model ----
(***************************************************************************)
(* Website monitor (src/app.py): the status classifier, the alert channel, *)
(* the probe evaluator check_website, and the two script prototypes that   *)
(* drive it over a list of monitored URLs.                                 *)
(*                                                                         *)
(* Conventions.  A Python value that may be None is a sequence of length   *)
(* at most one: <<>> is None (or a missing dict key), <<v>> is the value   *)
(* v.  Times are whole seconds; an average of at most three samples is     *)
(* kept exactly, in sixths of a second; a rounded value is in hundredths.  *)
(***************************************************************************)
EXTENDS Integers, Sequences, FiniteSets, TLC

VARIABLES
    websites,         \* st.session_state.websites, a set of URLs
    speed_threshold,  \* the 'Speed Alert Threshold' widget of the first prototype
    new_website,      \* the 'Add website' text field of the first prototype
    clear_clicked,    \* the run in progress was started by 'Clear All'
    domains,          \* rows (url, threshold) of the configuration store
    pc,               \* "idle", "loop" (at the head of the evaluation loop), "returned"
                      \* (check_website has returned), "crashed" (an exception ended the run)
    todo,             \* targets (url, threshold) the loop has still to evaluate
    results,          \* the results list the loop builds: the URL of each row
    lastEval,         \* the last call of check_website: its inputs and what it did
    lastOp,           \* the store operation the run began with, and the store before it
    code,             \* argument of a direct call of get_status_description
    description       \* what that call returned, <<>> before the call

vars == <<websites, speed_threshold, new_website, clear_clicked, domains,
          pc, todo, results, lastEval, lastOp, code, description>>

(***************************************************************************)
(* Bounds of the model and constants of the program.                       *)
(***************************************************************************)
MaxLatency == 2
MaxThreshold == 1
MaxCode == 600
NumSamples == 3
DefaultThreshold == 2

None == <<>>
Some(v) == <<v>>

Urls == {"https://a.test", "https://b.test"}
Latencies == 0..MaxLatency
Thresholds == (0 - MaxThreshold)..MaxThreshold
\* what the server answers on the classification request
StatusCodes == {200, 299, 503}
ErrTexts == {"", "Connection refused"}

(***************************************************************************)
(* Status classifier.                                                      *)
(***************************************************************************)
HTTP_CODES ==
    100 :> "Continue" @@ 101 :> "Switching protocols" @@ 102 :> "Processing" @@
    103 :> "Early Hints" @@
    200 :> "OK" @@ 201 :> "Created" @@ 202 :> "Accepted" @@
    203 :> "Non-Authoritative Information" @@
    204 :> "No Content" @@ 205 :> "Reset Content" @@ 206 :> "Partial Content" @@
    207 :> "Multi-Status" @@
    208 :> "Already Reported" @@ 226 :> "IM Used" @@
    300 :> "Multiple Choices" @@ 301 :> "Moved Permanently" @@ 302 :> "Found" @@
    303 :> "See Other" @@ 304 :> "Not Modified" @@ 305 :> "Use Proxy" @@
    307 :> "Temporary Redirect" @@
    308 :> "Permanent Redirect" @@
    400 :> "Bad Request" @@ 401 :> "Unauthorized" @@ 402 :> "Payment Required" @@
    403 :> "Forbidden" @@
    404 :> "Not Found" @@ 405 :> "Method Not Allowed" @@ 406 :> "Not Acceptable" @@
    407 :> "Proxy Authentication Required" @@ 408 :> "Request Timeout" @@
    409 :> "Conflict" @@
    410 :> "Gone" @@ 411 :> "Length Required" @@ 412 :> "Precondition Failed" @@
    413 :> "Payload Too Large" @@ 414 :> "URI Too Long" @@
    415 :> "Unsupported Media Type" @@
    416 :> "Range Not Satisfiable" @@ 417 :> "Expectation Failed" @@
    418 :> "I'm a Teapot" @@
    421 :> "Misdirected Request" @@ 422 :> "Unprocessable Entity" @@ 423 :> "Locked" @@
    424 :> "Failed Dependency" @@ 425 :> "Too Early" @@ 426 :> "Upgrade Required" @@
    428 :> "Precondition Required" @@ 429 :> "Too Many Requests" @@
    431 :> "Request Header Fields Too Large" @@
    451 :> "Unavailable For Legal Reasons" @@
    500 :> "Internal Server Error" @@ 501 :> "Not Implemented" @@ 502 :> "Bad Gateway" @@
    503 :> "Service Unavailable" @@ 504 :> "Gateway Timeout" @@
    505 :> "HTTP Version Not Supported" @@ 506 :> "Variant Also Negotiates" @@
    507 :> "Insufficient Storage" @@ 508 :> "Loop Detected" @@ 510 :> "Not Extended" @@
    511 :> "Network Authentication Required"

\* faulty variant: the lookup falls back for the server-error range
get_status_description_nofive(c) ==
    IF c \in DOMAIN HTTP_CODES /\ c < 500 THEN HTTP_CODES[c] ELSE "Unknown Status Code"

\* HTTP_CODES.get(code, "Unknown Status Code")
get_status_description(c) ==
    IF c \in DOMAIN HTTP_CODES THEN HTTP_CODES[c] ELSE "Unknown Status Code"

(***************************************************************************)
(* Alert channel.  send_alert formats the message and hands it to the mail *)
(* relay; reading st.secrets, connecting, logging in or sending may raise. *)
(* `deliver` is whether all of that succeeds.                              *)
(***************************************************************************)
\* round(x, 2) of x sixths of a second, in hundredths (x*100/6 is never a tie)
round2(x) == (x * 100 + 3) \div 6

\* Python truthiness of a float-or-None: None and 0.0 are false
truthy(opt) == opt # None /\ opt[1] # 0

\* the arguments of the call and the speed and error lines of the message
send_alert(url, status_code, speed, error) ==
    [url |-> url,
     status_code |-> status_code,
     status_desc |-> get_status_description(status_code),
     speed |-> speed,
     error |-> error,
     speed_line |-> IF truthy(speed) THEN Some(round2(speed[1])) ELSE None,
     error_line |-> IF error # None /\ error[1] # "" THEN error[1] ELSE "N/A"]

(***************************************************************************)
(* Probe evaluator.                                                        *)
(***************************************************************************)
\* a sample: None when requests.get raised, else the elapsed seconds
Samples == {None} \cup {Some(l) : l \in Latencies}

\* the classification request: a response, a RequestException, or an exception
\* that is no RequestException
ClsOutcomes ==
    {[kind |-> "response", status_code |-> c, text |-> ""] : c \in StatusCodes}
    \cup {[kind |-> "RequestException", status_code |-> 0, text |-> t] : t \in ErrTexts}
    \cup {[kind |-> "Exception", status_code |-> 0, text |-> ""]}

RECURSIVE sampling(_, _)
\* the sampling loop: speeds after the first n attempts
sampling(samples, n) ==
    IF n = 0 THEN <<>>
    ELSE LET before == sampling(samples, n - 1)
         IN IF samples[n] # None THEN Append(before, samples[n][1]) ELSE before

RECURSIVE Sum(_)
Sum(s) == IF s = <<>> THEN 0 ELSE Head(s) + Sum(Tail(s))

\* statistics.mean(speeds) if speeds else None, in sixths of a second
mean(speeds) == (Sum(speeds) * 6) \div Len(speeds)
avg_of(speeds) == IF speeds # <<>> THEN Some(mean(speeds)) ELSE None

\* the result dict of lines 83-88
success_result(url, status_code, avg_speed) ==
    [URL |-> url,
     StatusCode |-> Some(status_code),
     StatusText |-> get_status_description(status_code),
     Speed |-> IF truthy(avg_speed) THEN Some(round2(avg_speed[1])) ELSE None,
     Error |-> None]

\* faulty variant: the error result reports the sentinel status code 0
error_result_with_code(url, text) ==
    [URL |-> url,
     StatusCode |-> Some(0),
     StatusText |-> "Error - Connection Failed",
     Speed |-> None,
     Error |-> Some(text)]

\* the result dict of lines 97-103
error_result(url, text) ==
    [URL |-> url,
     StatusCode |-> None,
     StatusText |-> "Error - Connection Failed",
     Speed |-> None,
     Error |-> Some(text)]

\* faulty variant: a slow site alerts only when the status is bad as well
should_alert_and(status_code, avg_speed, threshold) ==
    status_code # 200 /\ (truthy(avg_speed) /\ avg_speed[1] > threshold * 6)

\* line 90
should_alert(status_code, avg_speed, threshold) ==
    status_code # 200 \/ (truthy(avg_speed) /\ avg_speed[1] > threshold * 6)

\* faulty variant: the error alert also passes the average of the samples
error_alert_with_speed(url, text, avg_speed) ==
    send_alert(url, 0, avg_speed, Some(text))

\* line 96
error_alert(url, text, avg_speed) ==
    send_alert(url, 0, None, Some(text))

\* what a call that got as far as `calls` and `result` does, given whether the
\* last alert could be delivered: an exception of send_alert is caught nowhere
finish(calls, result, deliver) ==
    IF calls # <<>> /\ ~deliver
    THEN [outcome |-> "raised", result |-> None, calls |-> calls]
    ELSE [outcome |-> "returned", result |-> Some(result), calls |-> calls]

check_website(url, threshold, samples, cls, deliver) ==
    LET speeds == sampling(samples, NumSamples)
        avg_speed == avg_of(speeds)
    IN  CASE cls.kind = "response" ->
               finish(IF should_alert(cls.status_code, avg_speed, threshold)
                      THEN <<send_alert(url, cls.status_code, avg_speed, None)>>
                      ELSE <<>>,
                      success_result(url, cls.status_code, avg_speed),
                      deliver)
          [] cls.kind = "RequestException" ->
               finish(<<error_alert(url, cls.text, avg_speed)>>,
                      error_result(url, cls.text),
                      deliver)
          [] OTHER ->
               [outcome |-> "raised", result |-> None, calls |-> <<>>]

(***************************************************************************)
(* Configuration store of the second prototype: a table of rows            *)
(* (url, threshold).  Its functions are not in the source file (line 172); *)
(* they are taken from the specification: add is an upsert by url.         *)
(***************************************************************************)
\* faulty variant: a plain insert
add_domain_insert(rows, url, threshold) == rows \cup {<<url, threshold>>}

add_domain(rows, url, threshold) ==
    {r \in rows : r[1] # url} \cup {<<url, threshold>>}

remove_domain(rows, url) == {r \in rows : r[1] # url}

get_domains(rows) == rows

(***************************************************************************)
(* State.                                                                  *)
(***************************************************************************)
NoEval ==
    [evaluated |-> FALSE, url |-> "", threshold |-> 0,
     samples |-> [i \in 1..NumSamples |-> None],
     cls |-> [kind |-> "none", status_code |-> 0, text |-> ""],
     alert_failed |-> FALSE, outcome |-> "none", result |-> None, calls |-> <<>>]

NoOp == [op |-> "none", url |-> "", threshold |-> 0, before |-> {}]

Init ==
    /\ websites = {}
    /\ speed_threshold = DefaultThreshold
    /\ new_website = ""
    /\ clear_clicked = FALSE
    /\ domains = {}
    /\ pc = "idle"
    /\ todo = {}
    /\ results = <<>>
    /\ lastEval = NoEval
    /\ lastOp = NoOp
    /\ code = 0
    /\ description = None

\* no script run is in progress: the last one ended, or died of an exception
Quiet == pc \in {"idle", "crashed"}

\* a script run reaches its evaluation loop with `targets` to evaluate
StartRun(targets) ==
    /\ pc' = IF targets = {} THEN "idle" ELSE "loop"
    /\ todo' = targets
    /\ results' = <<>>
    /\ lastEval' = NoEval

(***************************************************************************)
(* The evaluation loop, shared by both prototypes:                         *)
(*     for url in ...: result = check_website(url, threshold)              *)
(*                     results.append(result)                              *)
(* The environment chooses what the four requests and the mail relay do.   *)
(* lastEval holds the call while its result is a local of the loop body.   *)
(***************************************************************************)
CheckNext ==
    /\ pc = "loop"
    /\ \E target \in todo, samples \in [1..NumSamples -> Samples],
          cls \in ClsOutcomes, deliver \in BOOLEAN :
         LET r == check_website(target[1], target[2], samples, cls, deliver)
         IN  /\ r.calls = <<>> => deliver   \* no alert: the relay is not used
             /\ lastEval' = [evaluated |-> TRUE, url |-> target[1],
                             threshold |-> target[2], samples |-> samples,
                             cls |-> cls, alert_failed |-> ~deliver,
                             outcome |-> r.outcome, result |-> r.result,
                             calls |-> r.calls]
             /\ todo' = todo \ {target}
             /\ pc' = IF r.outcome = "returned" THEN "returned" ELSE "crashed"
    /\ lastOp' = NoOp
    /\ UNCHANGED <<websites, speed_threshold, new_website, clear_clicked, domains,
                   results, code, description>>

\* results.append(result), and on to the next URL
AppendResult ==
    /\ pc = "returned"
    /\ results' = Append(results, lastEval.result[1].URL)
    /\ lastEval' = NoEval
    /\ pc' = "loop"
    /\ UNCHANGED <<websites, speed_threshold, new_website, clear_clicked, domains,
                   todo, lastOp, code, description>>

\* the loop is over and the rest of the script runs: the table is shown, and
\* 'Clear All' (line 163) empties the set when it started this run
EndRun ==
    /\ pc = "loop"
    /\ todo = {}
    /\ pc' = "idle"
    /\ websites' = IF clear_clicked THEN {} ELSE websites
    /\ clear_clicked' = FALSE
    /\ lastOp' = NoOp
    /\ UNCHANGED <<speed_threshold, new_website, domains, todo, results, lastEval,
                   code, description>>

(***************************************************************************)
(* First prototype (lines 129-169): the URLs are a set in the session and  *)
(* one threshold serves them all.  Every run adds the text field's content *)
(* to the set before the loop.                                             *)
(***************************************************************************)
Run1(clear) ==
    /\ websites' = IF new_website' # "" THEN websites \cup {new_website'} ELSE websites
    /\ StartRun({<<w, speed_threshold'>> : w \in websites'})
    /\ clear_clicked' = (clear /\ websites' # {})
    /\ UNCHANGED <<domains, lastOp, code, description>>

TypeWebsite ==
    /\ Quiet
    /\ \E u \in Urls \cup {""} : new_website' = u
    /\ UNCHANGED speed_threshold
    /\ Run1(FALSE)

SetSpeedThreshold ==
    /\ Quiet
    /\ \E t \in Thresholds \cup {DefaultThreshold} : speed_threshold' = t
    /\ UNCHANGED new_website
    /\ Run1(FALSE)

\* the button exists once a run has come past the loop with a non-empty set
ClickClearAll ==
    /\ pc = "idle"
    /\ websites # {}
    /\ UNCHANGED <<new_website, speed_threshold>>
    /\ Run1(TRUE)

AutoRefresh ==
    /\ Quiet
    /\ UNCHANGED <<new_website, speed_threshold>>
    /\ Run1(FALSE)

(***************************************************************************)
(* Second prototype (lines 172-202): the targets are the rows of the       *)
(* store, each with its own threshold.                                     *)
(***************************************************************************)
Run2 ==
    /\ StartRun(get_domains(domains'))
    /\ UNCHANGED <<websites, speed_threshold, new_website, clear_clicked,
                   code, description>>

\* 'Add' (line 181): nothing is added when the text field is empty
AddDomain ==
    /\ Quiet
    /\ \E u \in Urls \cup {""}, t \in Thresholds :
         /\ domains' = IF u # "" THEN add_domain(domains, u, t) ELSE domains
         /\ lastOp' = IF u # ""
                      THEN [op |-> "add", url |-> u, threshold |-> t, before |-> domains]
                      ELSE NoOp
    /\ Run2

\* 'Remove' (line 188), then a rerun.  The page offers the stored URLs; the
\* store's remove takes any URL
RemoveDomain ==
    /\ Quiet
    /\ \E u \in Urls :
         /\ domains' = remove_domain(domains, u)
         /\ lastOp' = [op |-> "remove", url |-> u, threshold |-> 0, before |-> domains]
    /\ Run2

Refresh ==
    /\ Quiet
    /\ UNCHANGED domains
    /\ lastOp' = NoOp
    /\ Run2

\* a direct call of the status classifier
Describe ==
    /\ description = None
    /\ description' = Some(get_status_description(code))
    /\ UNCHANGED <<websites, speed_threshold, new_website, clear_clicked, domains,
                   pc, todo, results, lastEval, lastOp, code>>

Next == AddDomain \/ RemoveDomain \/ Refresh \/ CheckNext \/ AppendResult \/ EndRun

Spec == Init /\ [][Next]_vars

NextSession ==
    TypeWebsite \/ SetSpeedThreshold \/ ClickClearAll \/ AutoRefresh \/ CheckNext
    \/ AppendResult \/ EndRun

SpecSession == Init /\ [][NextSession]_vars

InitDescribe ==
    /\ websites = {}
    /\ speed_threshold = DefaultThreshold
    /\ new_website = ""
    /\ clear_clicked = FALSE
    /\ domains = {}
    /\ pc = "idle"
    /\ todo = {}
    /\ results = <<>>
    /\ lastEval = NoEval
    /\ lastOp = NoOp
    /\ code \in 0..MaxCode
    /\ description = None

NextDescribe == Describe

SpecDescribe == InitDescribe /\ [][NextDescribe]_vars

(***************************************************************************)
(* Properties.  What the claims say of a call is stated over lastEval, in  *)
(* terms of what the four requests and the relay did.                      *)
(***************************************************************************)
Succeeded(e) == {i \in 1..NumSamples : e.samples[i] # None}

RECURSIVE Total(_, _)
Total(e, S) ==
    IF S = {} THEN 0
    ELSE LET i == CHOOSE j \in S : TRUE IN e.samples[i][1] + Total(e, S \ {i})

\* six times the mean of the successful samples (defined when one succeeded)
SixMeans(e) == (6 * Total(e, Succeeded(e))) \div Cardinality(Succeeded(e))

\* the mean of the successful samples exceeds the threshold of the call
Slow(e) ==
    /\ Succeeded(e) # {}
    /\ Total(e, Succeeded(e)) > e.threshold * Cardinality(Succeeded(e))

ClsOk(e) == e.evaluated /\ e.cls.kind = "response"

\* C1: check_website never raises: whatever its four requests do, the
\* classification request raising included, the call returns a result record.
\* Stated for the calls whose alert, if any, was delivered: the relay is not
\* one of the four requests.
NeverRaises ==
    (lastEval.evaluated /\ ~lastEval.alert_failed) => lastEval.outcome = "returned"

\* C2: when delivery of the alert fails, check_website still returns its
\* result and the loop goes on to the remaining URLs.
DeliveryFailureNotSurfaced ==
    (lastEval.evaluated /\ lastEval.alert_failed)
        => (lastEval.outcome = "returned" /\ pc # "crashed")

\* C3: a classification response with a status code other than 200 makes
\* exactly one call of send_alert, with that code, whatever the samples did.
NonOkAlertsOnce ==
    (ClsOk(lastEval) /\ lastEval.cls.status_code # 200)
        => /\ Len(lastEval.calls) = 1
           /\ lastEval.calls[1].url = lastEval.url
           /\ lastEval.calls[1].status_code = lastEval.cls.status_code

\* a 503 with all three samples fast and well under the threshold
NonOkFastAlerted ==
    /\ ClsOk(lastEval)
    /\ lastEval.cls.status_code = 503
    /\ Cardinality(Succeeded(lastEval)) = NumSamples
    /\ ~Slow(lastEval)
    /\ Len(lastEval.calls) = 1
    /\ lastEval.calls[1].status_desc = "Service Unavailable"

\* C4: a classification response with status 200 calls send_alert if and only
\* if an average was computed and exceeds the threshold, and the call then
\* carries the average.
OkAlertsIffSlow ==
    (ClsOk(lastEval) /\ lastEval.cls.status_code = 200)
        => /\ Len(lastEval.calls) <= 1
           /\ (Len(lastEval.calls) = 1) <=> Slow(lastEval)
           /\ Len(lastEval.calls) = 1 =>
                 /\ lastEval.calls[1].status_code = 200
                 /\ lastEval.calls[1].speed = Some(SixMeans(lastEval))

\* C5: a classification request that fails with a RequestException makes one
\* call of send_alert, with code 0, the error text and no speed; the result
\* returned has the error text, no status code and no speed.
ConnectionErrorAlerts ==
    (lastEval.evaluated /\ lastEval.cls.kind = "RequestException")
        => /\ Len(lastEval.calls) = 1
           /\ lastEval.calls[1].url = lastEval.url
           /\ lastEval.calls[1].status_code = 0
           /\ lastEval.calls[1].error = Some(lastEval.cls.text)
           /\ lastEval.calls[1].speed = None
           /\ lastEval.calls[1].speed_line = None
           /\ lastEval.outcome = "returned" =>
                 /\ lastEval.result[1].Error = Some(lastEval.cls.text)
                 /\ lastEval.result[1].StatusCode = None
                 /\ lastEval.result[1].Speed = None

\* the classification failed after two samples had succeeded, and the result
\* came back
ConnectionErrorAfterSamples ==
    /\ lastEval.evaluated
    /\ lastEval.cls.kind = "RequestException"
    /\ lastEval.cls.text = "Connection refused"
    /\ Cardinality(Succeeded(lastEval)) = 2
    /\ lastEval.outcome = "returned"
    /\ Len(lastEval.calls) = 1

\* the alert condition of the evaluation: a bad status, a mean above the
\* threshold, or a failed classification request
AlertCondition(e) ==
    \/ ClsOk(e) /\ e.cls.status_code # 200
    \/ ClsOk(e) /\ Slow(e)
    \/ e.evaluated /\ e.cls.kind # "response"

\* C6: every evaluation that meets the alert condition calls send_alert, in
\* every run, whatever earlier runs saw or sent.
EveryAlertConditionAlerts ==
    AlertCondition(lastEval) => Len(lastEval.calls) >= 1

\* C7: a returned result has a status code or an error, never both and never
\* neither.
CodeXorError ==
    lastEval.outcome = "returned"
        => (lastEval.result[1].StatusCode # None) # (lastEval.result[1].Error # None)

\* an error result came back, with the empty text of a bare RequestException
ErrorResultReturned ==
    /\ lastEval.outcome = "returned"
    /\ lastEval.cls.kind = "RequestException"
    /\ lastEval.result[1].Error = Some("")

\* C8: get_status_description returns the phrase of the table for every code
\* of the table and "Unknown Status Code" for every other code, 0 included.
DescribeTotal ==
    description # None
        => /\ code \in DOMAIN HTTP_CODES => description[1] = HTTP_CODES[code]
           /\ code \notin DOMAIN HTTP_CODES => description[1] = "Unknown Status Code"
           /\ code = 200 => description[1] = "OK"
           /\ code = 404 => description[1] = "Not Found"
           /\ code = 503 => description[1] = "Service Unavailable"
           /\ code \in {0, 299, 600} => description[1] = "Unknown Status Code"

Described511 ==
    /\ code = 511
    /\ description = Some("Network Authentication Required")

RowsOf(rows, u) == {r \in rows : r[1] = u}

\* C9: the store never holds two rows for a URL; an add leaves exactly the row
\* with the threshold just given and touches no other URL; a remove of a URL
\* that is not stored changes nothing.
StoreUpsert ==
    /\ \A u \in Urls : Cardinality(RowsOf(domains, u)) <= 1
    /\ lastOp.op = "add" =>
          /\ RowsOf(domains, lastOp.url) = {<<lastOp.url, lastOp.threshold>>}
          /\ \A u \in Urls \ {lastOp.url} : RowsOf(domains, u) = RowsOf(lastOp.before, u)
    /\ lastOp.op = "remove" =>
          /\ RowsOf(domains, lastOp.url) = {}
          /\ RowsOf(lastOp.before, lastOp.url) = {} => domains = lastOp.before

\* an add has replaced another threshold of its URL
ThresholdReplaced ==
    /\ lastOp.op = "add"
    /\ \E r \in lastOp.before : r[1] = lastOp.url /\ r[2] # lastOp.threshold
    /\ RowsOf(domains, lastOp.url) = {<<lastOp.url, lastOp.threshold>>}

\* C10: three samples are attempted; a failed one counts for nothing and by
\* itself brings neither an error result nor an alert; after a classification
\* response the reported speed is the mean of the successful samples (to two
\* decimals), and is absent exactly when all three failed.
SamplingContract ==
    lastEval.evaluated
        => /\ Len(lastEval.samples) = NumSamples
           /\ (ClsOk(lastEval) /\ lastEval.outcome = "returned") =>
                 /\ lastEval.result[1].Error = None
                 /\ (lastEval.result[1].Speed = None) <=> (Succeeded(lastEval) = {})
                 /\ lastEval.result[1].Speed # None =>
                       lastEval.result[1].Speed = Some(round2(SixMeans(lastEval)))
           /\ (ClsOk(lastEval) /\ lastEval.cls.status_code = 200
                               /\ Succeeded(lastEval) = {}) => lastEval.calls = <<>>

====
